---- MODULE Spec2Model ----
(***************************************************************************)
(* Timeline.svelte / OscillatorBlock.svelte: the timeline clock, the block *)
(* store, the reconciliation of running oscillators against the blocks     *)
(* under the playhead, and the user gestures that edit them.                *)
(*                                                                         *)
(* Units.  Every time value (currentTime, block startTime and duration,     *)
(* the wall clock performance.now() and the reference epoch startTime) is   *)
(* held in milliseconds.  The component keeps currentTime and the block     *)
(* times in seconds and converts with *1000 and /1000; the value in         *)
(* seconds is the value here divided by 1000.                               *)
(***************************************************************************)
EXTENDS Integers, Sequences, FiniteSets, Bags, TLC

VARIABLES
    currentTime,       \* Timeline.svelte:6   playhead position
    isPlaying,         \* Timeline.svelte:8
    tracks,            \* Timeline.svelte:10  sequence of track records
    blocks,            \* Timeline.svelte:16  sequence of block records
    selectedBlockId,   \* Timeline.svelte:21  0 stands for null
    nextBlockId,       \* Timeline.svelte:22
    contextMenu,       \* Timeline.svelte:25
    audioContext,      \* Timeline.svelte:34  "null", "running" or "closed"
    oscillators,       \* Timeline.svelte:35  Map blockId -> OscillatorNode
    animationFrameId,  \* Timeline.svelte:45  0 stands for undefined
    startTime,         \* Timeline.svelte:46  reference epoch of the clock
    now,               \* performance.now()
    rafQueue,          \* callbacks registered with requestAnimationFrame
    live,              \* bag of oscillator nodes started and not yet stopped
    mounted,           \* the component has not been destroyed
    log,               \* backend calls made by the last handler, in order
    last,              \* which handler ran last, and what it found
    gestures           \* number of editing gestures performed so far

vars == << currentTime, isPlaying, tracks, blocks, selectedBlockId, nextBlockId,
           contextMenu, audioContext, oscillators, animationFrameId, startTime,
           now, rafQueue, live, mounted, log, last, gestures >>

(***************************************************************************)
(* Program constants                                                       *)
(***************************************************************************)
duration == 60000
pixelsPerSecond == 50
defaultBlockDuration == 4000
defaultBlockFrequency == 440
minBlockDuration == 100

(***************************************************************************)
(* Bounds of the model and the inputs the gestures are drawn from          *)
(***************************************************************************)
MaxNow == 4000
MaxBlockId == 4
MaxTracks == 3
MaxGestures == 2

AdvanceSteps == {2000}
SeekX == {100, 2900, 3200}
MenuX == {100}
MoveRaw == {2000}
ResizeRaw == {0, 6000}
Frequencies == {880}
Waveforms == {"sawtooth"}

Max(a, b) == IF a >= b THEN a ELSE b
Min(a, b) == IF a <= b THEN a ELSE b

\* x pixels from the left edge of the track area, as a time
PixelToTime(x) == (x * 1000) \div pixelsPerSecond

(***************************************************************************)
(* The component state as one record S, so that every function of the      *)
(* component is an operator from the state (and its arguments) to the       *)
(* state it leaves behind.  `log` starts empty in every handler.            *)
(***************************************************************************)
State ==
    [currentTime |-> currentTime, isPlaying |-> isPlaying, tracks |-> tracks,
     blocks |-> blocks, selectedBlockId |-> selectedBlockId,
     nextBlockId |-> nextBlockId, contextMenu |-> contextMenu,
     audioContext |-> audioContext, oscillators |-> oscillators,
     animationFrameId |-> animationFrameId, startTime |-> startTime,
     now |-> now, rafQueue |-> rafQueue, live |-> live, mounted |-> mounted,
     log |-> << >>]

Commit(S) ==
    /\ currentTime' = S.currentTime
    /\ isPlaying' = S.isPlaying
    /\ tracks' = S.tracks
    /\ blocks' = S.blocks
    /\ selectedBlockId' = S.selectedBlockId
    /\ nextBlockId' = S.nextBlockId
    /\ contextMenu' = S.contextMenu
    /\ audioContext' = S.audioContext
    /\ oscillators' = S.oscillators
    /\ animationFrameId' = S.animationFrameId
    /\ startTime' = S.startTime
    /\ now' = S.now
    /\ rafQueue' = S.rafQueue
    /\ live' = S.live
    /\ mounted' = S.mounted
    /\ log' = S.log

(***************************************************************************)
(* The audio backend.  A node is the OscillatorNode createOscillator made   *)
(* for a block; `live` is the bag of nodes that were started and have not   *)
(* been stopped.  masterGain is created together with audioContext and the  *)
(* gainNodes map is keyed exactly like oscillators; neither is kept.        *)
(***************************************************************************)
Call(name, blockId) == [call |-> name, block |-> blockId]

EmptyMap == [x \in {} |-> x]

Without(f, k) == [x \in DOMAIN f \ {k} |-> f[x]]

initAudioContext(S) ==
    IF S.audioContext = "null" THEN [S EXCEPT !.audioContext = "running"] ELSE S

stopOscillator(S, blockId) ==
    IF blockId \in DOMAIN S.oscillators
    THEN [S EXCEPT !.oscillators = Without(@, blockId),
                   !.live = @ (-) SetToBag({S.oscillators[blockId]}),
                   !.log = Append(@, Call("stop", blockId))]
    ELSE S

StartNode(S, blockId, frequency, type) ==
    LET node == [block |-> blockId, frequency |-> frequency, type |-> type]
    IN [S EXCEPT !.oscillators = [x \in DOMAIN @ \cup {blockId} |->
                                     IF x = blockId THEN node ELSE @[x]],
                 !.live = @ (+) SetToBag({node}),
                 !.log = Append(@, Call("start", blockId))]

createOscillatorNoStop(S, blockId, frequency, type) ==
    IF S.audioContext = "null" THEN S
    ELSE StartNode(S, blockId, frequency, type)

createOscillator(S, blockId, frequency, type) ==
    IF S.audioContext = "null" THEN S
    ELSE StartNode(stopOscillator(S, blockId), blockId, frequency, type)

\* forEach visits the map in insertion order; the stop calls are logged in
\* ascending block id, and only the order of the calls made on one block id
\* is ever read from the log.
RECURSIVE StopEach(_, _)
StopEach(S, ids) ==
    IF ids = {} THEN S
    ELSE LET b == CHOOSE x \in ids : \A y \in ids : x <= y
         IN StopEach([S EXCEPT !.live = @ (-) SetToBag({S.oscillators[b]}),
                               !.log = Append(@, Call("stop", b))], ids \ {b})

stopAllOscillators(S) ==
    [StopEach(S, DOMAIN S.oscillators) EXCEPT !.oscillators = EmptyMap]

IsActiveAfterStart(block, t) ==
    t > block.startTime /\ t < block.startTime + block.duration

IsActive(block, t) ==
    t >= block.startTime /\ t < block.startTime + block.duration

getActiveBlocks(S) ==
    SelectSeq(S.blocks, LAMBDA block : IsActive(block, S.currentTime))

RECURSIVE StopInactive(_, _, _)
StopInactive(S, activeBlocks, i) ==
    IF i > Len(S.blocks) THEN S
    ELSE LET isActive == \E j \in 1..Len(activeBlocks) :
                             activeBlocks[j].id = S.blocks[i].id
         IN StopInactive(IF ~isActive THEN stopOscillator(S, S.blocks[i].id) ELSE S,
                         activeBlocks, i + 1)

RECURSIVE StartActiveAlways(_, _, _)
StartActiveAlways(S, activeBlocks, i) ==
    IF i > Len(activeBlocks) THEN S
    ELSE LET block == activeBlocks[i]
         IN StartActiveAlways(
                createOscillator(S, block.id, block.frequency, block.type),
                activeBlocks, i + 1)

RECURSIVE StartActive(_, _, _)
StartActive(S, activeBlocks, i) ==
    IF i > Len(activeBlocks) THEN S
    ELSE LET block == activeBlocks[i]
         IN StartActive(IF block.id \notin DOMAIN S.oscillators
                        THEN createOscillator(S, block.id, block.frequency, block.type)
                        ELSE S,
                        activeBlocks, i + 1)

updateActiveOscillators(S) ==
    LET activeBlocks == getActiveBlocks(S)
    IN StartActive(StopInactive(S, activeBlocks, 1), activeBlocks, 1)

(***************************************************************************)
(* The clock                                                               *)
(***************************************************************************)
\* Handles are only ever compared for equality and tested for truthiness, and
\* the one place that keeps a handle, animationFrameId, is overwritten by every
\* registration: the smallest positive handle that is not pending stands for
\* the fresh handle the browser returns.
FreshHandle(S) ==
    CHOOSE h \in 1..(Cardinality(S.rafQueue) + 1) :
        /\ h \notin S.rafQueue
        /\ \A k \in 1..(h - 1) : k \in S.rafQueue

requestAnimationFrame(S) ==
    LET h == FreshHandle(S)
    IN [S EXCEPT !.rafQueue = @ \cup {h}, !.animationFrameId = h]

cancelAnimationFrame(S, handle) == [S EXCEPT !.rafQueue = @ \ {handle}]

stopPlaybackRewind(S) ==
    LET S1 == stopAllOscillators([S EXCEPT !.isPlaying = FALSE, !.currentTime = 0])
    IN IF S1.animationFrameId # 0
       THEN cancelAnimationFrame(S1, S1.animationFrameId)
       ELSE S1

stopPlaybackNoCancel(S) ==
    stopAllOscillators([S EXCEPT !.isPlaying = FALSE])

stopPlayback(S) ==
    LET S1 == stopAllOscillators([S EXCEPT !.isPlaying = FALSE])
    IN IF S1.animationFrameId # 0
       THEN cancelAnimationFrame(S1, S1.animationFrameId)
       ELSE S1

animateLoop(S) ==
    IF ~S.isPlaying THEN S
    ELSE LET S1 == [S EXCEPT !.currentTime = S.now - S.startTime]
         IN IF S1.currentTime >= duration
            THEN requestAnimationFrame(updateActiveOscillators(
                     [S1 EXCEPT !.currentTime = 0, !.startTime = S1.now]))
            ELSE requestAnimationFrame(updateActiveOscillators(S1))

animate(S) ==
    IF ~S.isPlaying THEN S
    ELSE LET S1 == [S EXCEPT !.currentTime = S.now - S.startTime]
         IN IF S1.currentTime >= duration
            THEN stopPlayback([S1 EXCEPT !.currentTime = 0])
            ELSE requestAnimationFrame(updateActiveOscillators(S1))

startPlaybackFromZero(S) ==
    LET S1 == IF S.audioContext = "null" THEN initAudioContext(S) ELSE S
    IN animate([S1 EXCEPT !.isPlaying = TRUE, !.startTime = S1.now])

startPlayback(S) ==
    LET S1 == IF S.audioContext = "null" THEN initAudioContext(S) ELSE S
    IN animate([S1 EXCEPT !.isPlaying = TRUE,
                          !.startTime = S1.now - S1.currentTime])

togglePlay(S) == IF S.isPlaying THEN stopPlayback(S) ELSE startPlayback(S)

seekToAlways(S, x) ==
    LET S1 == [S EXCEPT !.currentTime = Max(0, Min(PixelToTime(x), duration))]
    IN IF S1.isPlaying THEN updateActiveOscillators(S1) ELSE S1

seekToNoClamp(S, x) ==
    IF S.selectedBlockId # 0 THEN S
    ELSE LET S1 == [S EXCEPT !.currentTime = PixelToTime(x)]
         IN IF S1.isPlaying THEN updateActiveOscillators(S1) ELSE S1

seekTo(S, x) ==
    IF S.selectedBlockId # 0 THEN S
    ELSE LET S1 == [S EXCEPT !.currentTime =
                                 Max(0, Min(PixelToTime(x), duration))]
         IN IF S1.isPlaying THEN updateActiveOscillators(S1) ELSE S1

(***************************************************************************)
(* Tracks and blocks                                                       *)
(***************************************************************************)
addTrack(S) ==
    LET newTrack == [id |-> Len(S.tracks) + 1, name |-> Len(S.tracks) + 1,
                     frequency |-> 440, type |-> "sine"]
    IN [S EXCEPT !.tracks = Append(@, newTrack)]

removeTrackNoCascade(S, trackId) ==
    [S EXCEPT !.tracks = SelectSeq(@, LAMBDA track : track.id # trackId)]

removeTrack(S, trackId) ==
    [S EXCEPT !.tracks = SelectSeq(@, LAMBDA track : track.id # trackId),
              !.blocks = SelectSeq(@, LAMBDA block : block.trackId # trackId)]

addBlock(S, trackId, start) ==
    LET newBlock == [id |-> S.nextBlockId, trackId |-> trackId, startTime |-> start,
                     duration |-> defaultBlockDuration,
                     frequency |-> defaultBlockFrequency, type |-> "sine"]
    IN [S EXCEPT !.nextBlockId = @ + 1, !.blocks = Append(@, newBlock)]

HasBlock(S, id) == \E i \in 1..Len(S.blocks) : S.blocks[i].id = id

\* blocks.find(b => b.id === id): the first block with that id
FindBlock(S, id) ==
    S.blocks[CHOOSE i \in 1..Len(S.blocks) :
                 /\ S.blocks[i].id = id
                 /\ \A j \in 1..(i - 1) : S.blocks[j].id # id]

updateBlockNoStop(S, detail) ==
    LET S1 == [S EXCEPT !.blocks =
                   [i \in 1..Len(@) |->
                       IF @[i].id = detail.id
                       THEN [@[i] EXCEPT !.startTime = detail.startTime,
                                         !.duration = detail.duration,
                                         !.frequency = detail.frequency,
                                         !.type = detail.type,
                                         !.trackId = detail.trackId]
                       ELSE @[i]]]
    IN IF S1.isPlaying /\ HasBlock(S1, detail.id)
       THEN LET block == FindBlock(S1, detail.id)
            IN IF IsActive(block, S1.currentTime)
               THEN createOscillator(S1, block.id, block.frequency, block.type)
               ELSE S1
       ELSE S1

updateBlockAlways(S, detail) ==
    LET S1 == [S EXCEPT !.blocks =
                   [i \in 1..Len(@) |->
                       IF @[i].id = detail.id
                       THEN [@[i] EXCEPT !.startTime = detail.startTime,
                                         !.duration = detail.duration,
                                         !.frequency = detail.frequency,
                                         !.type = detail.type,
                                         !.trackId = detail.trackId]
                       ELSE @[i]]]
    IN IF HasBlock(S1, detail.id)
       THEN LET block == FindBlock(S1, detail.id)
            IN IF IsActive(block, S1.currentTime)
               THEN createOscillator(S1, block.id, block.frequency, block.type)
               ELSE stopOscillator(S1, block.id)
       ELSE S1

updateBlockKeep(S, detail) ==
    LET S1 == [S EXCEPT !.blocks =
                   [i \in 1..Len(@) |->
                       IF @[i].id = detail.id
                       THEN [@[i] EXCEPT !.startTime = detail.startTime,
                                         !.duration = detail.duration,
                                         !.frequency = detail.frequency,
                                         !.type = detail.type,
                                         !.trackId = detail.trackId]
                       ELSE @[i]]]
    IN IF S1.isPlaying /\ HasBlock(S1, detail.id)
       THEN LET block == FindBlock(S1, detail.id)
            IN IF IsActive(block, S1.currentTime)
               THEN IF block.id \in DOMAIN S1.oscillators THEN S1
                    ELSE createOscillator(S1, block.id, block.frequency, block.type)
               ELSE stopOscillator(S1, block.id)
       ELSE S1

updateBlock(S, detail) ==
    LET S1 == [S EXCEPT !.blocks =
                   [i \in 1..Len(@) |->
                       IF @[i].id = detail.id
                       THEN [@[i] EXCEPT !.startTime = detail.startTime,
                                         !.duration = detail.duration,
                                         !.frequency = detail.frequency,
                                         !.type = detail.type,
                                         !.trackId = detail.trackId]
                       ELSE @[i]]]
    IN IF S1.isPlaying /\ HasBlock(S1, detail.id)
       THEN LET block == FindBlock(S1, detail.id)
            IN IF IsActive(block, S1.currentTime)
               THEN createOscillator(S1, block.id, block.frequency, block.type)
               ELSE stopOscillator(S1, block.id)
       ELSE S1

deleteBlockNoStop(S, id) ==
    [S EXCEPT !.blocks = SelectSeq(@, LAMBDA block : block.id # id)]

deleteBlock(S, id) ==
    stopOscillator([S EXCEPT !.blocks = SelectSeq(@, LAMBDA block : block.id # id)], id)

selectBlock(S, id) == [S EXCEPT !.selectedBlockId = id]

(***************************************************************************)
(* Context menu, keyboard and document-level click                         *)
(***************************************************************************)
handleContextMenu(S, trackId, x) ==
    [S EXCEPT !.contextMenu = [visible |-> TRUE, trackId |-> trackId,
                               clickTime |-> PixelToTime(x)]]

closeContextMenu(S) == [S EXCEPT !.contextMenu.visible = FALSE]

addOscillator(S) ==
    IF S.contextMenu.trackId # 0 /\ S.contextMenu.visible
    THEN closeContextMenu(addBlock(S, S.contextMenu.trackId, S.contextMenu.clickTime))
    ELSE S

handleKeyDown(S, key) ==
    IF key = "Escape"
    THEN [closeContextMenu(S) EXCEPT !.selectedBlockId = 0]
    ELSE S

\* target: "menu" (inside the rendered context menu), "block" (inside an
\* oscillator block) or "other".  menuElement: the menu is in the document.
handleGlobalClick(S, target, menuElement) ==
    LET S1 == IF menuElement /\ target # "menu" THEN closeContextMenu(S) ELSE S
        clickedOnBlock == target = "block"
    IN IF S1.selectedBlockId # 0 /\ ~clickedOnBlock
       THEN [S1 EXCEPT !.selectedBlockId = 0]
       ELSE S1

(***************************************************************************)
(* OscillatorBlock.svelte: the events a block dispatches.  The props of a   *)
(* block component are the fields of its block.                             *)
(***************************************************************************)
Detail(block) ==
    [id |-> block.id, startTime |-> block.startTime, duration |-> block.duration,
     frequency |-> block.frequency, type |-> block.type, trackId |-> block.trackId]

\* raw is dragStartTime + deltaTime
handleMouseMove(block, raw) ==
    [Detail(block) EXCEPT !.startTime = Max(0, raw)]

\* raw is resizeStartDuration + deltaTime
handleResizeMove(block, raw) ==
    [Detail(block) EXCEPT !.duration = Max(minBlockDuration, raw)]

handleFrequencyChange(block, newFrequency) ==
    [Detail(block) EXCEPT !.frequency = newFrequency]

handleTypeChange(block, newType) ==
    [Detail(block) EXCEPT !.type = newType]

\* The cleanup returned by onMount.  The cancelAnimationFrame and close calls
\* are logged here, next to the stop calls, so that their order can be read.
onUnmountCloseFirst(S) ==
    LET S1 == IF S.audioContext # "null"
              THEN [S EXCEPT !.audioContext = "closed",
                             !.log = Append(@, Call("close", 0))]
              ELSE S
        S2 == stopAllOscillators(S1)
        S3 == IF S2.animationFrameId # 0
              THEN [cancelAnimationFrame(S2, S2.animationFrameId)
                       EXCEPT !.log = Append(@, Call("cancel", 0))]
              ELSE S2
    IN [S3 EXCEPT !.mounted = FALSE]

onUnmount(S) ==
    LET S1 == IF S.animationFrameId # 0
              THEN [cancelAnimationFrame(S, S.animationFrameId)
                       EXCEPT !.log = Append(@, Call("cancel", 0))]
              ELSE S
        S2 == stopAllOscillators(S1)
        S3 == IF S2.audioContext # "null"
              THEN [S2 EXCEPT !.audioContext = "closed",
                              !.log = Append(@, Call("close", 0))]
              ELSE S2
    IN [S3 EXCEPT !.mounted = FALSE]

(***************************************************************************)
(* History kept for stating properties: the handler that ran last and the   *)
(* block it was about (0: none).  startPlayback leaves the wall-clock time  *)
(* it ran at (at) and the position and blocks it was entered with (pos,     *)
(* blocks0), a seek made while playing the wall-clock time it ran at, its   *)
(* target (pos) and whether the handler before it was a seek made while     *)
(* playing to the same target (chained), a                                  *)
(* frame callback whether it was entered while playing (playing0) and the   *)
(* position now - startTime it was due to compute (pos); the first frame    *)
(* callback after a startPlayback that followed a stopPlayback is chained   *)
(* and carries the wall-clock time of that startPlayback (at).              *)
(***************************************************************************)
Hist(op, id) ==
    [op |-> op, id |-> id, pos |-> 0, at |-> 0, chained |-> FALSE,
     playing0 |-> FALSE, blocks0 |-> << >>]

\* chained: startPlayback is the first handler to run after stopPlayback
StartHist ==
    [Hist("start", 0) EXCEPT !.pos = currentTime, !.at = now, !.blocks0 = blocks,
                             !.chained = (last.op = "stop")]

\* stopPlayback entered right after startPlayback, with no time in between:
\* pos and blocks0 are then what startPlayback was entered with
\* playing0: whether stopPlayback was entered while playing
StopHist ==
    IF last.op = "start" /\ last.at = now
    THEN [Hist("stop", 0) EXCEPT !.pos = last.pos, !.blocks0 = last.blocks0,
                                 !.chained = TRUE, !.playing0 = isPlaying]
    ELSE [Hist("stop", 0) EXCEPT !.playing0 = isPlaying]

TickHist ==
    [Hist("tick", 0) EXCEPT !.playing0 = isPlaying,
                            !.pos = now - startTime,
                            !.chained = (last.op = "start" /\ last.chained),
                            !.at = IF last.op = "start" /\ last.chained
                                   THEN last.at ELSE 0]

BlockIds == {blocks[i].id : i \in 1..Len(blocks)}
TrackIds == {tracks[i].id : i \in 1..Len(tracks)}
Block(id) == FindBlock(State, id)

Init ==
    /\ currentTime = 0
    /\ isPlaying = FALSE
    /\ tracks = << [id |-> 1, name |-> 1, frequency |-> 440, type |-> "sine"],
                   [id |-> 2, name |-> 2, frequency |-> 880, type |-> "triangle"] >>
    /\ blocks = << [id |-> 1, trackId |-> 1, startTime |-> 0, duration |-> 4000,
                    frequency |-> 440, type |-> "sine"],
                   [id |-> 2, trackId |-> 1, startTime |-> 6000, duration |-> 3000,
                    frequency |-> 660, type |-> "triangle"],
                   [id |-> 3, trackId |-> 2, startTime |-> 2000, duration |-> 5000,
                    frequency |-> 880, type |-> "square"] >>
    /\ selectedBlockId = 0
    /\ nextBlockId = 4
    /\ contextMenu = [visible |-> FALSE, trackId |-> 0, clickTime |-> 0]
    /\ audioContext = "null"
    /\ oscillators = EmptyMap
    /\ animationFrameId = 0
    /\ startTime = 0
    /\ now = 0
    /\ rafQueue = {}
    /\ live = EmptyBag
    /\ mounted = TRUE
    /\ log = << >>
    /\ last = Hist("mount", 0)
    /\ gestures = 0

(***************************************************************************)
(* Transport gestures.  A click that is not stopped on its way up also      *)
(* reaches the document-level listener handleGlobalClick.                   *)
(***************************************************************************)
ClickPlay ==
    /\ mounted
    /\ Commit(handleGlobalClick(togglePlay(State), "other", contextMenu.visible))
    /\ last' = IF isPlaying THEN StopHist ELSE StartHist
    /\ UNCHANGED gestures

ClickStop ==
    /\ mounted
    /\ Commit(handleGlobalClick(stopPlayback(State), "other", contextMenu.visible))
    /\ last' = StopHist
    /\ UNCHANGED gestures

\* a click on the empty part of the track area, x pixels from its left edge
ClickTimeline ==
    /\ mounted
    /\ \E x \in SeekX :
          /\ Commit(handleGlobalClick(seekTo(State, x), "other", contextMenu.visible))
          /\ last' = IF selectedBlockId # 0 THEN Hist("seekSuppressed", 0)
                     ELSE IF isPlaying
                          THEN [Hist("seekPlaying", 0) EXCEPT
                                   !.at = now,
                                   !.pos = PixelToTime(x),
                                   !.chained = /\ last.op = "seekPlaying"
                                               /\ last.pos = PixelToTime(x)]
                          ELSE Hist("seek", 0)
    /\ UNCHANGED gestures

\* the scheduled frame callback fires
Tick ==
    /\ mounted
    /\ \E h \in rafQueue :
          Commit(animate([State EXCEPT !.rafQueue = @ \ {h}]))
    /\ last' = TickHist
    /\ UNCHANGED gestures

\* wall-clock time passes with no handler running
Advance ==
    /\ \E d \in AdvanceSteps :
          /\ now + d <= MaxNow
          /\ now' = now + d
    /\ UNCHANGED << currentTime, isPlaying, tracks, blocks, selectedBlockId,
                    nextBlockId, contextMenu, audioContext, oscillators,
                    animationFrameId, startTime, rafQueue, live, mounted, log,
                    last, gestures >>

(***************************************************************************)
(* Editing gestures                                                        *)
(***************************************************************************)
Gesture ==
    /\ mounted
    /\ gestures < MaxGestures
    /\ gestures' = gestures + 1

\* click on the body of a block: handleClick dispatches select, the click
\* then reaches seekTo on the track area and the document
ClickBlock ==
    /\ Gesture
    /\ \E id \in BlockIds :
          /\ Commit(handleGlobalClick(
                        seekTo(selectBlock(State, id),
                               (Block(id).startTime * pixelsPerSecond) \div 1000),
                        "block", contextMenu.visible))
          /\ last' = Hist("select", id)

PressEscape ==
    /\ Gesture
    /\ Commit(handleKeyDown(State, "Escape"))
    /\ last' = Hist("escape", 0)

DragBlock ==
    /\ Gesture
    /\ \E id \in BlockIds, raw \in MoveRaw :
          /\ Commit(updateBlock(State, handleMouseMove(Block(id), raw)))
          /\ last' = Hist("move", id)

ResizeBlock ==
    /\ Gesture
    /\ \E id \in BlockIds, raw \in ResizeRaw :
          /\ Commit(updateBlock(State, handleResizeMove(Block(id), raw)))
          /\ last' = Hist("resize", id)

InputFrequency ==
    /\ Gesture
    /\ \E id \in BlockIds, f \in Frequencies :
          /\ Commit(updateBlock(State, handleFrequencyChange(Block(id), f)))
          /\ last' = Hist("setFrequency", id)

ChangeType ==
    /\ Gesture
    /\ \E id \in BlockIds, ty \in Waveforms :
          /\ Commit(updateBlock(State, handleTypeChange(Block(id), ty)))
          /\ last' = Hist("setWaveform", id)

\* the delete button stops the click from propagating
ClickDelete ==
    /\ Gesture
    /\ \E id \in BlockIds :
          /\ Commit(deleteBlock(State, id))
          /\ last' = Hist("delete", id)

RightClickTrack ==
    /\ Gesture
    /\ \E trackId \in TrackIds, x \in MenuX :
          /\ Commit(handleContextMenu(State, trackId, x))
          /\ last' = Hist("menu", 0)

\* the menu item exists only while the menu is shown
ClickAddOscillator ==
    /\ Gesture
    /\ contextMenu.visible
    /\ nextBlockId <= MaxBlockId
    /\ Commit(handleGlobalClick(addOscillator(State), "menu", contextMenu.visible))
    /\ last' = Hist("addBlock", nextBlockId)

ClickAddTrack ==
    /\ Gesture
    /\ Len(tracks) < MaxTracks
    /\ Commit(handleGlobalClick(addTrack(State), "other", contextMenu.visible))
    /\ last' = Hist("addTrack", 0)

ClickRemoveTrack ==
    /\ Gesture
    /\ \E trackId \in TrackIds :
          /\ Commit(handleGlobalClick(removeTrack(State, trackId), "other",
                                      contextMenu.visible))
          /\ last' = Hist("removeTrack", 0)

Unmount ==
    /\ mounted
    /\ Commit(onUnmount(State))
    /\ last' = Hist("unmount", 0)
    /\ UNCHANGED gestures

Next ==
    \/ ClickPlay
    \/ ClickStop
    \/ ClickTimeline
    \/ Tick
    \/ Advance
    \/ ClickBlock
    \/ PressEscape
    \/ DragBlock
    \/ ResizeBlock
    \/ InputFrequency
    \/ ChangeType
    \/ ClickDelete
    \/ RightClickTrack
    \/ ClickAddOscillator
    \/ ClickAddTrack
    \/ ClickRemoveTrack
    \/ Unmount

Spec == Init /\ [][Next]_vars

\* ENABLED <<Tick>>_vars written out as a state predicate: a frame callback
\* is pending and running it changes the state or the history.
TickEnabled ==
    /\ mounted
    /\ \E h \in rafQueue :
          \/ animate([State EXCEPT !.rafQueue = @ \ {h}]) # [State EXCEPT !.log = log]
          \/ TickHist # last

\* The browser runs a registered frame callback (the page stays visible) and
\* the wall clock keeps advancing, up to the modelled horizon MaxNow.  The
\* second conjunct is WF_vars(Tick) with TickEnabled for ENABLED <<Tick>>_vars.
FairSpec ==
    /\ Spec
    /\ WF_vars(Advance)
    /\ ([]<>(~TickEnabled) \/ []<><<Tick>>_vars)

(***************************************************************************)
(* Properties                                                              *)
(***************************************************************************)
\* the playhead t lies in the block's interval: start inclusive, end exclusive
InInterval(block, t) ==
    block.startTime <= t /\ t < block.startTime + block.duration

\* block ids that have a generator started and not yet stopped
LiveIds == {node.block : node \in BagToSet(live)}

\* number of generators started and not yet stopped for a block id
LiveCount(id) ==
    LET nodes == {node \in BagToSet(live) : node.block = id}
    IN IF nodes = {} THEN 0
       ELSE IF Cardinality(nodes) > 1 THEN 2
       ELSE CopiesIn(CHOOSE node \in nodes : TRUE, live)

InStore(id) == \E i \in 1..Len(blocks) : blocks[i].id = id

Logged(name, id) == \E k \in 1..Len(log) : log[k] = Call(name, id)

C2_LiveGeneratorsAreActive ==
    (last.op = "tick" /\ isPlaying) =>
        \A id \in LiveIds :
            \E i \in 1..Len(blocks) :
                blocks[i].id = id /\ InInterval(blocks[i], currentTime)

\* C3: at most one generator per block id is started and not yet stopped.
C3_AtMostOneGeneratorPerBlock ==
    \A id \in LiveIds : LiveCount(id) = 1

\* C3 witness: a handler created a generator for a block id that had one; it
\* stopped the earlier one first, and one generator is live.
C3_Witness ==
    \E id \in LiveIds :
        /\ LiveCount(id) = 1
        /\ \E k \in 1..Len(log) :
              /\ log[k] = Call("stop", id)
              /\ k < Len(log)
              /\ log[k + 1] = Call("start", id)

\* C4: after a seek made while playing, the next frame callback, d of
\* wall-clock time later, computes currentTime = t + d (unless that reaches
\* the timeline duration), t being the position the seek set.
C4_SeekResetsEpoch ==
    [][(/\ last.op = "seekPlaying"
        /\ Tick
        /\ currentTime + (now - last.at) < duration)
       => currentTime' = currentTime + (now - last.at)]_vars

EditStep == DragBlock \/ ResizeBlock \/ InputFrequency \/ ChangeType

ActiveIn(bs, id, t) ==
    \E i \in 1..Len(bs) : bs[i].id = id /\ InInterval(bs[i], t)

NoCallOn(lg, id) == \A k \in 1..Len(lg) : lg[k].block # id

\* C5: an edit made while playing to a block that is active before and after
\* it neither stops nor creates a generator for the block, and a move or
\* resize makes no backend call at all.
C5_EditKeepsGenerator ==
    [][(/\ EditStep
        /\ isPlaying
        /\ ActiveIn(blocks, last'.id, currentTime)
        /\ ActiveIn(blocks', last'.id, currentTime'))
       => /\ NoCallOn(log', last'.id)
          /\ last'.op \in {"move", "resize"} => log' = << >>]_vars

\* C6, for addBlock: right after a block is added while playing at a start
\* time whose interval contains currentTime, the new block has a live
\* generator, as every block active at currentTime must after a mutation.
C6_AddedBlockSounds ==
    (last.op = "addBlock" /\ isPlaying /\ ActiveIn(blocks, last.id, currentTime))
        => LiveCount(last.id) >= 1

\* C7: right after deleteBlock the deleted block has no live generator and
\* is not in the block store.
C7_DeleteStopsGenerator ==
    last.op = "delete" => (LiveCount(last.id) = 0 /\ ~InStore(last.id))

\* C7 witness: the deleted block had a live generator, which the delete
\* stopped.
C7_Witness ==
    /\ last.op = "delete"
    /\ log = << Call("stop", last.id) >>
    /\ LiveCount(last.id) = 0

\* C8: right after a move or resize made while playing, a block whose
\* interval does not contain currentTime has no live generator.
C8_EditStopsInactiveBlock ==
    (last.op \in {"move", "resize"} /\ isPlaying /\ ~ActiveIn(blocks, last.id, currentTime))
        => LiveCount(last.id) = 0

\* C8 witness: a resize shrank a sounding block so that currentTime is at or
\* past its new end, and the resize stopped its generator.
C8_Witness ==
    /\ last.op = "resize"
    /\ isPlaying
    /\ \E i \in 1..Len(blocks) :
          /\ blocks[i].id = last.id
          /\ currentTime >= blocks[i].startTime + blocks[i].duration
    /\ log = << Call("stop", last.id) >>
    /\ LiveCount(last.id) = 0

\* C9 as claimed: from any stopped position in [0, duration], startPlayback
\* followed at once by stopPlayback restores position, transport state,
\* blocks and the empty set of live generators.
C9_StartStopIdempotent ==
    (last.op = "stop" /\ last.chained) =>
        /\ currentTime = last.pos
        /\ ~isPlaying
        /\ blocks = last.blocks0
        /\ live = EmptyBag

\* C9 amended: the same from any stopped position in [0, duration), the end
\* of the timeline excluded.
C9_StartStopIdempotentBeforeEnd ==
    (last.op = "stop" /\ last.chained /\ last.pos < duration) =>
        /\ currentTime = last.pos
        /\ ~isPlaying
        /\ blocks = last.blocks0
        /\ live = EmptyBag

\* C9 witness: playback was started at a position inside the timeline where
\* a block sounds and stopped at once, which stopped the generator.
C9_Witness ==
    /\ last.op = "stop"
    /\ last.chained
    /\ last.pos > 0
    /\ last.pos < duration
    /\ currentTime = last.pos
    /\ \E id \in 1..MaxBlockId : Logged("stop", id)
    /\ live = EmptyBag

\* C10: a frame callback entered while playing that computes a position at
\* or past the timeline duration leaves currentTime 0, the transport
\* stopped, no generator live and no frame callback registered.
C10_AutoStopAtEnd ==
    (last.op = "tick" /\ last.playing0 /\ last.pos >= duration) =>
        /\ currentTime = 0
        /\ ~isPlaying
        /\ live = EmptyBag
        /\ rafQueue = {}

\* C10 witness: a frame callback reached the end of the timeline while a
\* generator was live, and stopped it.
C10_Witness ==
    /\ last.op = "tick"
    /\ last.playing0
    /\ last.pos >= duration
    /\ \E id \in 1..MaxBlockId : Logged("stop", id)
    /\ currentTime = 0
    /\ ~isPlaying

\* C11: while the transport is stopped, no step other than a seek or a start
\* changes currentTime, however much wall-clock time passes; and the first
\* frame callback after startPlayback, d after it, computes the position
\* startPlayback was entered with plus d (when that is before the end of
\* the timeline).
C11_PausedPositionResumes ==
    [][/\ (~isPlaying /\ currentTime' # currentTime)
            => (ClickTimeline \/ ClickPlay)
       /\ (/\ last.op = "start"
           /\ last'.op = "tick"
           /\ last.pos + (now - last.at) < duration
           /\ Tick)
            => currentTime' = last.pos + (now - last.at)]_vars

\* C11 witness: playback was stopped at a position t > 0, time passed, it was
\* started again and the first frame callback, d > 0 later, computed t + d.
C11_Witness ==
    /\ last.op = "tick"
    /\ last.chained
    /\ last.at > 0
    /\ now > last.at
    /\ isPlaying
    /\ currentTime > now - last.at
    /\ currentTime = now - startTime

\* C12: the stop button pressed while the transport is stopped changes
\* neither currentTime, the transport state, the blocks, the live generators
\* and their map, nor the pending frame callbacks, and makes no backend call.
C12_StopIdempotent ==
    [][(~isPlaying /\ last'.op = "stop" /\ ClickStop)
       => /\ currentTime' = currentTime
          /\ isPlaying' = isPlaying
          /\ blocks' = blocks
          /\ live' = live
          /\ oscillators' = oscillators
          /\ rafQueue' = rafQueue
          /\ log' = << >>]_vars

\* C12 witness: stopPlayback ran while stopped at a position > 0 after an
\* earlier playback, so that it cancelled the stale frame handle.
C12_Witness ==
    /\ last.op = "stop"
    /\ ~last.playing0
    /\ currentTime > 0
    /\ animationFrameId # 0
    /\ rafQueue = {}

\* C13: in every reachable state at most one frame callback is pending, and
\* none is pending while the transport is stopped.
C13_TickPendingOnlyWhilePlaying ==
    /\ Cardinality(rafQueue) <= 1
    /\ ~isPlaying => rafQueue = {}

\* C13 witness: stopPlayback was entered while playing with a frame callback
\* registered, and the callback is no longer pending.
C13_Witness ==
    /\ last.op = "stop"
    /\ last.playing0
    /\ ~last.chained
    /\ animationFrameId # 0
    /\ rafQueue = {}
    /\ ~isPlaying

\* C14: no two tracks in the track list have the same id.
C14_TrackIdsUnique ==
    \A i, j \in 1..Len(tracks) : tracks[i].id = tracks[j].id => i = j

\* C15: every block in the block store has the trackId of a track that is
\* in the track list.
C15_BlocksReferenceTracks ==
    \A i \in 1..Len(blocks) : blocks[i].trackId \in TrackIds

\* C15 witness: the context menu was opened on a track, the track was then
\* removed with the blocks on it, and the menu is closed, pointing at a track
\* that no longer exists.
C15_Witness ==
    /\ last.op = "removeTrack"
    /\ contextMenu.trackId # 0
    /\ contextMenu.trackId \notin TrackIds
    /\ ~contextMenu.visible
    /\ Len(blocks) < 3

\* C16: a click on the timeline made while a block is selected leaves
\* currentTime, the live generators and their map unchanged and makes no
\* backend call, whether the transport is playing or stopped.
C16_SeekSuppressedWhileSelected ==
    [][(selectedBlockId # 0 /\ last'.op = "seekSuppressed" /\ ClickTimeline)
       => /\ currentTime' = currentTime
          /\ live' = live
          /\ oscillators' = oscillators
          /\ log' = << >>]_vars

\* C16 witness: the timeline was clicked while a block was selected and the
\* transport was playing with a generator live.
C16_Witness ==
    /\ last.op = "seekSuppressed"
    /\ isPlaying
    /\ live # EmptyBag

\* C17: in every reachable state currentTime lies in [0, duration].
C17_CurrentTimeInRange ==
    /\ 0 <= currentTime
    /\ currentTime <= duration

\* C17 witness: a click past the end of the timeline was clamped to the
\* timeline duration (no other seek target of SeekX gives that position).
C17_Witness ==
    /\ last.op \in {"seek", "seekPlaying"}
    /\ currentTime = duration
    /\ \E x \in SeekX : PixelToTime(x) > duration

\* C18: a seek made while playing with no block selected, directly after a
\* seek made while playing to the same target (no other handler in between),
\* makes no backend call and leaves currentTime, the live generators and
\* their map as the first seek left them.
C18_RepeatedSeekIsNoOp ==
    [][(/\ last.op = "seekPlaying"
        /\ last'.op = "seekPlaying"
        /\ last'.pos = last.pos
        /\ ClickTimeline)
       => /\ log' = << >>
          /\ currentTime' = currentTime
          /\ live' = live
          /\ oscillators' = oscillators]_vars

\* C18 witness: the second of two seeks to one target was made while a
\* generator started by the first was live.
C18_Witness ==
    /\ last.op = "seekPlaying"
    /\ last.chained
    /\ isPlaying
    /\ live # EmptyBag
    /\ log = << >>

Rank(call) == IF call = "cancel" THEN 1 ELSE IF call = "stop" THEN 2 ELSE 3

\* C19: the context is never closed while a generator is live, and right
\* after the unmount cleanup no frame callback is pending, no generator is
\* live, the context is not running, and the cleanup made its calls in the
\* order cancelAnimationFrame, oscillator stops, close.
C19_TeardownOrder ==
    /\ audioContext = "closed" => live = EmptyBag
    /\ last.op = "unmount" =>
          /\ rafQueue = {}
          /\ live = EmptyBag
          /\ oscillators = EmptyMap
          /\ audioContext # "running"
          /\ \A i, j \in 1..Len(log) :
                i < j => Rank(log[i].call) <= Rank(log[j].call)

\* C19 witness: the component was unmounted while playing with a generator
\* live; the cleanup cancelled the frame callback, stopped the generator and
\* closed the context.
C19_Witness ==
    /\ last.op = "unmount"
    /\ isPlaying
    /\ Logged("cancel", 0)
    /\ \E id \in 1..MaxBlockId : Logged("stop", id)
    /\ Logged("close", 0)
    /\ audioContext = "closed"

\* the values the modelled wall clock takes
ClockValues == {n \in 0..MaxNow : \E d \in AdvanceSteps : n % d = 0}

C21_StoppedIsSilent ==
    ~isPlaying => (live = EmptyBag /\ oscillators = EmptyMap)

\* C21 witness: after a playback that created the audio context, a block
\* whose interval contains currentTime was edited while stopped, and no
\* generator was created for it.
C21_Witness ==
    /\ last.op \in {"move", "resize", "setFrequency", "setWaveform"}
    /\ ~isPlaying
    /\ audioContext = "running"
    /\ ActiveIn(blocks, last.id, currentTime)
    /\ live = EmptyBag

\* C22: selectedBlockId is null or the id of a block in the block store.
C22_SelectionInStore ==
    selectedBlockId # 0 => InStore(selectedBlockId)

\* C23: every live generator whose block is in the block store has the
\* frequency and the waveform the block has now.
C23_GeneratorsCarryBlockParameters ==
    \A node \in BagToSet(live) :
        InStore(node.block) =>
            /\ node.frequency = Block(node.block).frequency
            /\ node.type = Block(node.block).type

\* C23 witness: the frequency or waveform of a sounding block was changed
\* while playing; its generator was replaced by one with the new value.
C23_Witness ==
    /\ last.op \in {"setFrequency", "setWaveform"}
    /\ isPlaying
    /\ log = << Call("stop", last.id), Call("start", last.id) >>
    /\ \E node \in BagToSet(live) :
          /\ node.block = last.id
          /\ InStore(last.id)
          /\ node.frequency = Block(last.id).frequency
          /\ node.type = Block(last.id).type
          /\ (node.frequency \in Frequencies \/ node.type \in Waveforms)

====
